---- MODULE Spec2Model ----
(***************************************************************************)
(* Configuration resolution of pw-foundation: createConfig and deepMerge   *)
(* (src/config/default.config.ts) and getEnvironment                       *)
(* (src/config/environments.ts), and the utilities retryAction, pollUntil,  *)
(* waitForNetworkIdle (src/utils/WaitHelpers.ts), Logger and FileUtils.    *)
(*                                                                         *)
(* JavaScript values are modelled as tagged records: numbers, null,        *)
(* undefined, arrays (a sequence of values) and plain objects (a function  *)
(* from own property names to values).                                     *)
(***************************************************************************)
EXTENDS Integers, Sequences, FiniteSets, TLC

VARIABLES
    TEST_ENV,       \* process.env.TEST_ENV: Undefined or a string value
    defaults,       \* createConfig: the framework defaults layer
    envConfig,      \* createConfig: the layer returned by getEnvironment()
    overrides,      \* createConfig: its argument
    activeName,     \* createConfig: the key read at the overlay lookup
    consumerEnv,    \* createConfig: consumerEnvConfig, the overlay it merged
    config,         \* createConfig: the returned configuration
    target,         \* deepMerge: first argument
    source,         \* deepMerge: second argument
    result,         \* deepMerge: returned value
    heap,           \* the objects and arrays in memory, by address
    targetRef,      \* deepMerge on the heap: first argument
    sourceRef,      \* deepMerge on the heap: second argument
    resultRef,      \* deepMerge on the heap: returned value
    explicitName,   \* a second argument passed to createConfig
    pc,             \* createConfig run statement by statement: where it is
    envReads,       \* ... and how often it has read process.env.TEST_ENV
    inputs,         \* two calls in flight: each call's overrides argument
    locals,         \* ... the local constants of each call
    pcs,            \* ... where each call is
    configs,        \* ... what each call returned
    history,        \* createConfig called again and again: the calls so far
    retry,          \* retryAction: its arguments, locals and outcome
    poll,           \* pollUntil: its arguments, locals, clock and outcome
    logger,         \* Logger: its static fields
    files,          \* FileUtils: tempFiles and the files on disk
    netIdle         \* waitForNetworkIdle: timer, listeners, clock, outcome

vars == <<TEST_ENV, defaults, envConfig, overrides, activeName, consumerEnv,
          config, target, source, result, heap, targetRef, sourceRef, resultRef,
          explicitName, pc, envReads, inputs, locals, pcs, configs,
          history, retry, poll, logger, files, netIdle>>

configVars == <<TEST_ENV, defaults, envConfig, overrides, activeName,
                consumerEnv, config>>
mergeVars == <<target, source, result>>
heapVars == <<heap, targetRef, sourceRef, resultRef>>
stepVars == <<explicitName, pc, envReads>>
callVars == <<inputs, locals, pcs, configs>>
utilVars == <<history, retry, poll, logger, files, netIdle>>
coreVars == <<configVars, mergeVars, heapVars, stepVars, callVars>>

(***************************************************************************)
(* Bounds of the explored input space.                                     *)
(***************************************************************************)
MaxScalar == 2
MaxArrLen == 1

(***************************************************************************)
(* JavaScript values.                                                      *)
(***************************************************************************)
Num(n) == [type |-> "number", value |-> n]
Null == [type |-> "null"]
Undefined == [type |-> "undefined"]
Str(s) == [type |-> "string", value |-> s]
Arr(s) == [type |-> "array", elems |-> s]
Obj(f) == [type |-> "object", props |-> f]

NoProps == [k \in {} |-> Undefined]
EmptyObj == Obj(NoProps)

\* the state of a part of the program that a specification does not run
UtilIdle ==
    /\ history = Undefined
    /\ retry = Undefined
    /\ poll = Undefined
    /\ logger = Undefined
    /\ files = Undefined
    /\ netIdle = Undefined

CoreIdle ==
    /\ TEST_ENV = Undefined
    /\ defaults = EmptyObj
    /\ envConfig = EmptyObj
    /\ overrides = EmptyObj
    /\ activeName = Undefined
    /\ consumerEnv = Undefined
    /\ config = Undefined
    /\ target = Undefined
    /\ source = Undefined
    /\ result = Undefined
    /\ heap = <<>>
    /\ targetRef = Undefined
    /\ sourceRef = Undefined
    /\ resultRef = Undefined
    /\ explicitName = Undefined
    /\ pc = "none"
    /\ envReads = 0
    /\ inputs = <<>>
    /\ locals = <<>>
    /\ pcs = <<>>
    /\ configs = <<>>

\* Array.isArray(v)
IsArray(v) == v.type = "array"

\* typeof v === 'object' (true of null, arrays and plain objects)
TypeofObject(v) == v.type \in {"null", "array", "object"}

\* ToBoolean(v): undefined, null, 0 and '' are falsy
Truthy(v) ==
    CASE v.type = "undefined" -> FALSE
      [] v.type = "null" -> FALSE
      [] v.type = "number" -> v.value # 0
      [] v.type = "string" -> v.value # ""
      [] OTHER -> TRUE

\* a non-array mapping, the "object" of the configuration tree
IsPlainObject(v) == v.type = "object"

\* the property name of array position i (1-based here, 0-based in JS)
IdxKey(i) ==
    CASE i = 1 -> "0"
      [] i = 2 -> "1"
      [] i = 3 -> "2"
      [] OTHER -> "3"

\* The own enumerable properties of a value, as spread ({ ...v }) and
\* for-in with hasOwnProperty see them: an object's properties, an array's
\* index properties, nothing for a number, null or undefined.  (Strings
\* occur only as values of process.env.TEST_ENV, which is used as a key and
\* never spread or iterated.)
OwnProps(v) ==
    CASE v.type = "object" -> v.props
      [] v.type = "array" ->
            [k \in {IdxKey(i) : i \in 1..Len(v.elems)} |->
                v.elems[CHOOSE i \in 1..Len(v.elems) : IdxKey(i) = k]]
      [] OTHER -> NoProps

\* v[k] for an own property, undefined otherwise
Get(v, k) == IF k \in DOMAIN OwnProps(v) THEN OwnProps(v)[k] ELSE Undefined

(***************************************************************************)
(* deepMerge(target, source): result = { ...target }, then for every own   *)
(* key of source: an array replaces, two objects (the target's not an      *)
(* array) merge recursively, anything else replaces.                       *)
(***************************************************************************)
RECURSIVE deepMerge(_, _)

\* Faulty variants of mergeValue: plausible slips in the per-key dispatch.
\* a shallow merge: the patch's value always replaces
mergeValueShallow(targetValue, sourceValue) == sourceValue

\* arrays concatenated instead of replaced
mergeValueConcat(targetValue, sourceValue) ==
    IF IsArray(sourceValue)
    THEN IF IsArray(targetValue)
         THEN Arr(targetValue.elems \o sourceValue.elems)
         ELSE sourceValue
    ELSE IF /\ Truthy(sourceValue) /\ TypeofObject(sourceValue)
            /\ Truthy(targetValue) /\ TypeofObject(targetValue)
            /\ ~IsArray(targetValue)
         THEN deepMerge(targetValue, sourceValue)
         ELSE sourceValue

\* the first argument wins where it holds a value
mergeValueLeft(targetValue, sourceValue) ==
    IF targetValue.type # "undefined" THEN targetValue ELSE sourceValue

\* the !Array.isArray(targetValue) test forgotten
mergeValueNoArrayCheck(targetValue, sourceValue) ==
    IF IsArray(sourceValue)
    THEN sourceValue
    ELSE IF /\ Truthy(sourceValue) /\ TypeofObject(sourceValue)
            /\ Truthy(targetValue) /\ TypeofObject(targetValue)
         THEN deepMerge(targetValue, sourceValue)
         ELSE sourceValue

mergeValue(targetValue, sourceValue) ==
    IF IsArray(sourceValue)
    THEN sourceValue
    ELSE IF /\ Truthy(sourceValue) /\ TypeofObject(sourceValue)
            /\ Truthy(targetValue) /\ TypeofObject(targetValue)
            /\ ~IsArray(targetValue)
         THEN deepMerge(targetValue, sourceValue)
         ELSE sourceValue

\* Faulty variant of deepMerge: result = {} instead of { ...target }.
deepMergeNoSpread(t, s) ==
    LET own == OwnProps(s)
    IN  Obj([key \in DOMAIN own |-> mergeValue(Undefined, own[key])])

deepMerge(t, s) ==
    LET spread == OwnProps(t)
        own == OwnProps(s)
    IN  Obj([key \in (DOMAIN spread) \cup (DOMAIN own) |->
                IF key \in DOMAIN own
                THEN mergeValue(IF key \in DOMAIN spread THEN spread[key]
                                ELSE Undefined, own[key])
                ELSE spread[key]])

(***************************************************************************)
(* The trees deepMerge is explored on.                                     *)
(***************************************************************************)
Nums == {Num(i) : i \in 1..MaxScalar}
Scalars == Nums \cup {Null}
ArrElems == {Num(1), Num(2)}
SeqsUpTo(S, n) == UNION {[1..m -> S] : m \in 0..n}
Arrays == {Arr(s) : s \in SeqsUpTo(ArrElems, MaxArrLen)}
Leaves == Scalars \cup Arrays

\* the objects whose keys are a subset of DOMAIN allowed, key k holding a
\* value of allowed[k]
ObjectsOver(allowed) ==
    UNION {{Obj(f) : f \in {g \in [D -> UNION {allowed[k] : k \in D}] :
                              \A k \in D : g[k] \in allowed[k]}} :
           D \in SUBSET (DOMAIN allowed)}

DeepObjects == ObjectsOver("x" :> Nums)
InnerObjects == ObjectsOver(("x" :> (Leaves \cup DeepObjects)) @@ ("y" :> Nums))
RootObjects == ObjectsOver(("a" :> (Leaves \cup InnerObjects)) @@ ("b" :> Nums))
Trees == RootObjects \cup Leaves

(***************************************************************************)
(* SpecMerge: deepMerge applied to every pair of trees.                    *)
(***************************************************************************)
InitMerge ==
    /\ target \in Trees
    /\ source \in Trees
    /\ result = Undefined
    /\ TEST_ENV = Undefined
    /\ defaults = EmptyObj
    /\ envConfig = EmptyObj
    /\ overrides = EmptyObj
    /\ activeName = Undefined
    /\ consumerEnv = Undefined
    /\ explicitName = Undefined
    /\ pc = "none"
    /\ envReads = 0
    /\ inputs = <<>>
    /\ locals = <<>>
    /\ pcs = <<>>
    /\ configs = <<>>
    /\ UtilIdle
    /\ config = Undefined
    /\ heap = <<>>
    /\ targetRef = Undefined
    /\ sourceRef = Undefined
    /\ resultRef = Undefined

Merge ==
    /\ result = Undefined
    /\ result' = deepMerge(target, source)
    /\ UNCHANGED <<target, source>>
    /\ UNCHANGED configVars
    /\ UNCHANGED heapVars
    /\ UNCHANGED stepVars
    /\ UNCHANGED callVars
    /\ UNCHANGED utilVars

NextMerge == Merge

SpecMerge == InitMerge /\ [][NextMerge]_vars

(***************************************************************************)
(* deepMerge on the heap.  Objects and arrays are cells of a heap (a       *)
(* sequence; an address is an index), a property holds a primitive or a    *)
(* reference.  { ...target } allocates a cell holding a shallow copy,      *)
(* result[key] = v writes one property of a cell, and a value that is      *)
(* assigned is shared, not copied.                                         *)
(***************************************************************************)
Ref(a) == [type |-> "ref", addr |-> a]
IsRef(v) == v.type = "ref"

\* Array.isArray(v) of a heap value
IsArrayAt(h, v) == IsRef(v) /\ h[v.addr].type = "array"

\* a truthy value with typeof 'object': a reference (null is falsy)
IsObjectAt(h, v) == IsRef(v)

\* the own enumerable properties of a heap value
OwnPropsAt(h, v) ==
    IF IsRef(v)
    THEN IF h[v.addr].type = "array"
         THEN [k \in {IdxKey(i) : i \in 1..Len(h[v.addr].elems)} |->
                 h[v.addr].elems[CHOOSE i \in 1..Len(h[v.addr].elems) : IdxKey(i) = k]]
         ELSE h[v.addr].props
    ELSE NoProps

\* result[key] = v on the object cell at address r
WriteProp(h, r, key, v) ==
    [h EXCEPT ![r] = [type |-> "object",
                      props |-> [k \in (DOMAIN h[r].props) \cup {key} |->
                                    IF k = key THEN v ELSE h[r].props[k]]]]

RECURSIVE deepMergeAt(_, _, _)
RECURSIVE mergeLoop(_, _, _, _)

\* the for-in loop over the keys of source still to visit, writing into the
\* cell at address r
mergeLoop(h, r, s, keys) ==
    IF keys = {} THEN h
    ELSE LET key == CHOOSE k \in keys : TRUE
             sourceValue == OwnPropsAt(h, s)[key]
             targetValue == IF key \in DOMAIN h[r].props THEN h[r].props[key]
                            ELSE Undefined
             h2 == IF IsArrayAt(h, sourceValue)
                   THEN WriteProp(h, r, key, sourceValue)
                   ELSE IF /\ IsObjectAt(h, sourceValue)
                           /\ IsObjectAt(h, targetValue)
                           /\ ~IsArrayAt(h, targetValue)
                        THEN LET m == deepMergeAt(h, targetValue, sourceValue)
                             IN  WriteProp(m.heap, r, key, m.value)
                        ELSE WriteProp(h, r, key, sourceValue)
         IN  mergeLoop(h2, r, s, keys \ {key})

\* Faulty variant of deepMergeAt: result = target, the loop writes into the target.
deepMergeInPlace(h, t, s) ==
    IF IsRef(t) /\ h[t.addr].type = "object"
    THEN [heap |-> mergeLoop(h, t.addr, s, DOMAIN OwnPropsAt(h, s)), value |-> t]
    ELSE LET h1 == Append(h, [type |-> "object", props |-> OwnPropsAt(h, t)])
         IN  [heap |-> mergeLoop(h1, Len(h1), s, DOMAIN OwnPropsAt(h, s)),
              value |-> Ref(Len(h1))]

\* const result = { ...target }; the loop; return result
deepMergeAt(h, t, s) ==
    LET h1 == Append(h, [type |-> "object", props |-> OwnPropsAt(h, t)])
    IN  [heap |-> mergeLoop(h1, Len(h1), s, DOMAIN OwnPropsAt(h, s)),
         value |-> Ref(Len(h1))]

\* A tree stored on the heap: every object and array in a cell of its own.
RECURSIVE Store(_, _)
RECURSIVE StoreProps(_, _, _, _)
RECURSIVE StoreElems(_, _, _, _)

StoreProps(h, props, keys, acc) ==
    IF keys = {} THEN [heap |-> h, props |-> acc]
    ELSE LET key == CHOOSE k \in keys : TRUE
             st == Store(h, props[key])
         IN  StoreProps(st.heap, props, keys \ {key}, acc @@ (key :> st.value))

StoreElems(h, elems, i, acc) ==
    IF i > Len(elems) THEN [heap |-> h, elems |-> acc]
    ELSE LET st == Store(h, elems[i])
         IN  StoreElems(st.heap, elems, i + 1, Append(acc, st.value))

Store(h, tree) ==
    CASE tree.type = "object" ->
            LET sp == StoreProps(h, tree.props, DOMAIN tree.props, NoProps)
                h1 == Append(sp.heap, [type |-> "object", props |-> sp.props])
            IN  [heap |-> h1, value |-> Ref(Len(h1))]
      [] tree.type = "array" ->
            LET se == StoreElems(h, tree.elems, 1, <<>>)
                h1 == Append(se.heap, [type |-> "array", elems |-> se.elems])
            IN  [heap |-> h1, value |-> Ref(Len(h1))]
      [] OTHER -> [heap |-> h, value |-> tree]

\* The tree a heap value denotes (what a deep comparison sees).
RECURSIVE Deref(_, _)
Deref(h, v) ==
    IF IsRef(v)
    THEN IF h[v.addr].type = "array"
         THEN Arr([i \in 1..Len(h[v.addr].elems) |-> Deref(h, h[v.addr].elems[i])])
         ELSE Obj([k \in DOMAIN h[v.addr].props |-> Deref(h, h[v.addr].props[k])])
    ELSE v

(***************************************************************************)
(* SpecHeap: deepMerge applied to every pair of trees stored on the heap;  *)
(* target and source record the trees as they were before the call.  The   *)
(* two arguments may be one and the same object.                           *)
(***************************************************************************)
InitHeap ==
    /\ target \in Trees
    /\ source \in Trees
    /\ \E same \in BOOLEAN :
        LET st == Store(<<>>, target)
            ss == Store(st.heap, source)
        IN  IF same /\ source = target
            THEN heap = st.heap /\ targetRef = st.value /\ sourceRef = st.value
            ELSE heap = ss.heap /\ targetRef = st.value /\ sourceRef = ss.value
    /\ result = Undefined
    /\ resultRef = Undefined
    /\ TEST_ENV = Undefined
    /\ defaults = EmptyObj
    /\ envConfig = EmptyObj
    /\ overrides = EmptyObj
    /\ activeName = Undefined
    /\ consumerEnv = Undefined
    /\ explicitName = Undefined
    /\ pc = "none"
    /\ envReads = 0
    /\ inputs = <<>>
    /\ locals = <<>>
    /\ pcs = <<>>
    /\ configs = <<>>
    /\ UtilIdle
    /\ config = Undefined

MergeOnHeap ==
    /\ resultRef = Undefined
    /\ LET m == deepMergeAt(heap, targetRef, sourceRef)
       IN  /\ heap' = m.heap
           /\ resultRef' = m.value
           /\ result' = Deref(m.heap, m.value)
    /\ UNCHANGED <<target, source, targetRef, sourceRef>>
    /\ UNCHANGED configVars
    /\ UNCHANGED stepVars
    /\ UNCHANGED callVars
    /\ UNCHANGED utilVars

NextHeap == MergeOnHeap

SpecHeap == InitHeap /\ [][NextHeap]_vars

\* Faulty variant of getEnvironment: a layer picked by TEST_ENV.
getEnvironmentByTestEnv ==
    IF TEST_ENV = Str("staging") THEN Obj("timeout" :> Num(2)) ELSE EmptyObj

(***************************************************************************)
(* createConfig.  Its two local layers, the defaults literal and the       *)
(* result of getEnvironment(), are parameters here so that the pipeline is *)
(* explored for every such layer; the value process.env.TEST_ENV holds     *)
(* when the overlay is looked up is the fourth parameter.                  *)
(***************************************************************************)
\* getEnvironment(): "For now, return empty"
getEnvironment == EmptyObj

\* process.env.TEST_ENV || ''
envKey(testEnv) == IF Truthy(testEnv) THEN testEnv.value ELSE ""

\* Faulty variant of consumerEnvConfig: an unset or empty TEST_ENV selects nothing.
consumerEnvConfigNonEmpty(o, testEnv) ==
    LET environments == Get(o, "environments")
        found == IF environments.type \in {"undefined", "null"} \/ ~Truthy(testEnv)
                 THEN Undefined
                 ELSE Get(environments, envKey(testEnv))
    IN  IF Truthy(found) THEN found ELSE EmptyObj

\* overrides.environments?.[process.env.TEST_ENV || ''] || {}
consumerEnvConfig(o, testEnv) ==
    LET environments == Get(o, "environments")
        found == IF environments.type \in {"undefined", "null"}
                 THEN Undefined
                 ELSE Get(environments, envKey(testEnv))
    IN  IF Truthy(found) THEN found ELSE EmptyObj

\* Faulty variant of finalWithConsumerEnv: the overlay merged first, not last.
finalWithConsumerEnvOverlayFirst(d, e, o, testEnv) ==
    deepMerge(deepMerge(deepMerge(d, consumerEnvConfig(o, testEnv)), o), e)

\* Faulty variant of finalWithConsumerEnv: envConfig merged before overrides.
finalWithConsumerEnvAutoFirst(d, e, o, testEnv) ==
    deepMerge(deepMerge(deepMerge(d, e), o), consumerEnvConfig(o, testEnv))

\* merged = deepMerge(defaults, overrides); final = deepMerge(merged,
\* envConfig); finalWithConsumerEnv = deepMerge(final, consumerEnvConfig)
\* Faulty variant of finalWithConsumerEnv: the overlay looked up in the
\* environments map of the merged tree, whichever layer brought it.
finalWithConsumerEnvFromMerged(d, e, o, testEnv) ==
    LET final == deepMerge(deepMerge(d, o), e)
    IN  deepMerge(final, consumerEnvConfig(final, testEnv))

finalWithConsumerEnv(d, e, o, testEnv) ==
    LET merged == deepMerge(d, o)
        final == deepMerge(merged, e)
    IN  deepMerge(final, consumerEnvConfig(o, testEnv))

\* Faulty variant of playwrightConfig: nothing removed.
playwrightConfigKeepAll(f) == f

\* Faulty variant of playwrightConfig: `environments` removed at every depth.
RECURSIVE playwrightConfigDeepStrip(_)
playwrightConfigDeepStrip(f) ==
    IF f.type = "object"
    THEN Obj([key \in (DOMAIN f.props) \ {"environments"} |->
                playwrightConfigDeepStrip(f.props[key])])
    ELSE f

\* const { environments, ...playwrightConfig } = finalWithConsumerEnv
playwrightConfig(f) ==
    Obj([key \in (DOMAIN OwnProps(f)) \ {"environments"} |-> OwnProps(f)[key]])

\* defineConfig of @playwright/test returns its single argument
defineConfig(c) == c

\* Faulty variant of createConfig: the tree of the call before is kept and
\* the next call merges into it.
createConfigAccumulating(d, e, o, testEnv) ==
    deepMerge(IF config = Undefined THEN EmptyObj ELSE config,
              defineConfig(playwrightConfig(finalWithConsumerEnv(d, e, o, testEnv))))

createConfig(d, e, o, testEnv) ==
    defineConfig(playwrightConfig(finalWithConsumerEnv(d, e, o, testEnv)))

(***************************************************************************)
(* The layers createConfig is explored on.                                 *)
(***************************************************************************)
ArrayLeaf == Arr(<<Num(1)>>)
NestedA == Obj("baseURL" :> Num(1))
NestedB == Obj("environments" :> Num(2))
NestedArr == Obj("baseURL" :> Arr(<<Num(2)>>))
NestedArrLeaf == Obj("baseURL" :> ArrayLeaf)
StagingMap == Obj("staging" :> Obj("timeout" :> Num(2)))

\* the layers tried for the defaults literal
DefaultLayers ==
    ObjectsOver(("timeout" :> {Num(1), ArrayLeaf, NestedA, NestedArrLeaf})
                @@ ("environments" :> {StagingMap}))
\* the layers tried for envConfig; getEnvironment's {} is one of them
AutodetectedLayers ==
    ObjectsOver(("timeout" :> {Num(2), NestedB})
                @@ ("environments" :> {StagingMap}))
Overlays ==
    ObjectsOver(("timeout" :> (Nums \cup {Arr(<<>>), NestedB, NestedArr}))
                @@ ("environments" :> {Num(1)}))
    \cup {Null, Obj("environments" :> ArrayLeaf)}
EnvironmentMaps ==
    ObjectsOver(("staging" :> Overlays) @@ ("" :> {Obj("timeout" :> Num(1))}))
OverrideLayers ==
    ObjectsOver(("timeout" :> {Num(1), NestedA})
                @@ ("environments" :> (EnvironmentMaps \cup {Null, Num(1)})))
EnvNames == {"", "staging", "prod"}

(***************************************************************************)
(* Spec: createConfig called under every value of process.env.TEST_ENV.    *)
(***************************************************************************)
Init ==
    /\ TEST_ENV = Undefined
    /\ defaults \in DefaultLayers
    /\ envConfig \in AutodetectedLayers
    /\ overrides \in OverrideLayers
    /\ activeName = Undefined
    /\ consumerEnv = Undefined
    /\ explicitName = Undefined
    /\ pc = "none"
    /\ envReads = 0
    /\ inputs = <<>>
    /\ locals = <<>>
    /\ pcs = <<>>
    /\ configs = <<>>
    /\ UtilIdle
    /\ config = Undefined
    /\ target = Undefined
    /\ source = Undefined
    /\ result = Undefined
    /\ heap = <<>>
    /\ targetRef = Undefined
    /\ sourceRef = Undefined
    /\ resultRef = Undefined

\* process.env.TEST_ENV = name
SetTestEnv(name) ==
    /\ TEST_ENV' = Str(name)
    /\ UNCHANGED <<defaults, envConfig, overrides, activeName, consumerEnv, config>>
    /\ UNCHANGED mergeVars
    /\ UNCHANGED heapVars
    /\ UNCHANGED stepVars
    /\ UNCHANGED callVars
    /\ UNCHANGED utilVars

\* delete process.env.TEST_ENV
DeleteTestEnv ==
    /\ TEST_ENV' = Undefined
    /\ UNCHANGED <<defaults, envConfig, overrides, activeName, consumerEnv, config>>
    /\ UNCHANGED mergeVars
    /\ UNCHANGED heapVars
    /\ UNCHANGED stepVars
    /\ UNCHANGED callVars
    /\ UNCHANGED utilVars

\* config = createConfig(overrides); activeName records the value of
\* process.env.TEST_ENV the call read
CreateConfig ==
    /\ config' = createConfig(defaults, envConfig, overrides, TEST_ENV)
    /\ activeName' = TEST_ENV
    /\ consumerEnv' = consumerEnvConfig(overrides, TEST_ENV)
    /\ UNCHANGED <<TEST_ENV, defaults, envConfig, overrides>>
    /\ UNCHANGED mergeVars
    /\ UNCHANGED heapVars
    /\ UNCHANGED stepVars
    /\ UNCHANGED callVars
    /\ UNCHANGED utilVars

Next ==
    \/ \E name \in EnvNames : SetTestEnv(name)
    \/ DeleteTestEnv
    \/ CreateConfig

Spec == Init /\ [][Next]_vars

(***************************************************************************)
(* SpecSteps: one call createConfig(overrides, explicitName) run statement *)
(* by statement, process.env.TEST_ENV changing between any two statements. *)
(* createConfig declares one parameter: a second argument is not read.     *)
(***************************************************************************)
\* Faulty variant of finalFromLocals: TEST_ENV read again for the last merge.
finalFromLocalsRereads(d, e, o, cEnv, testEnvNow) ==
    deepMerge(deepMerge(deepMerge(d, o), e), consumerEnvConfig(o, testEnvNow))

\* lines 50-54 on the locals: the overlay merged is the local
\* consumerEnvConfig computed at line 16, whatever TEST_ENV holds now
finalFromLocals(d, e, o, cEnv, testEnvNow) ==
    deepMerge(deepMerge(deepMerge(d, o), e), cEnv)

StepEnvNames == {"staging", "prod"}
ExplicitNames == {Undefined, Str(""), Str("staging"), Str("prod")}
StepOverrides ==
    {o \in OverrideLayers :
        "environments" \in DOMAIN o.props
        => o.props["environments"] \in
              {Null, Obj("staging" :> Obj("timeout" :> Num(2))),
               Obj("staging" :> Obj("environments" :> Num(1))),
               Obj(("staging" :> Obj("timeout" :> Num(2)))
                   @@ ("" :> Obj("timeout" :> Num(1))))}}

InitSteps ==
    /\ TEST_ENV \in {Undefined, Str("staging")}
    /\ defaults \in DefaultLayers
    /\ envConfig \in {getEnvironment, Obj("timeout" :> Num(2))}
    /\ overrides \in StepOverrides
    /\ explicitName \in ExplicitNames
    /\ activeName = Undefined
    /\ consumerEnv = Undefined
    /\ config = Undefined
    /\ pc = "lookup"
    /\ envReads = 0
    /\ inputs = <<>>
    /\ locals = <<>>
    /\ pcs = <<>>
    /\ configs = <<>>
    /\ UtilIdle
    /\ target = Undefined
    /\ source = Undefined
    /\ result = Undefined
    /\ heap = <<>>
    /\ targetRef = Undefined
    /\ sourceRef = Undefined
    /\ resultRef = Undefined

\* process.env.TEST_ENV set or deleted by someone else while the call runs
EnvChanges ==
    /\ pc # "done"
    /\ \/ \E name \in StepEnvNames : TEST_ENV' = Str(name)
       \/ TEST_ENV' = Undefined
    /\ UNCHANGED <<defaults, envConfig, overrides, activeName, consumerEnv, config>>
    /\ UNCHANGED <<explicitName, pc, envReads>>
    /\ UNCHANGED mergeVars
    /\ UNCHANGED heapVars
    /\ UNCHANGED callVars
    /\ UNCHANGED utilVars

\* lines 13-16: the one read of process.env.TEST_ENV
StepLookup ==
    /\ pc = "lookup"
    /\ activeName' = TEST_ENV
    /\ envReads' = envReads + 1
    /\ consumerEnv' = consumerEnvConfig(overrides, TEST_ENV)
    /\ pc' = "merge"
    /\ UNCHANGED <<TEST_ENV, defaults, envConfig, overrides, config, explicitName>>
    /\ UNCHANGED mergeVars
    /\ UNCHANGED heapVars
    /\ UNCHANGED callVars
    /\ UNCHANGED utilVars

\* lines 19-54: the three merges; result holds finalWithConsumerEnv
StepMerge ==
    /\ pc = "merge"
    /\ result' = finalFromLocals(defaults, envConfig, overrides, consumerEnv, TEST_ENV)
    /\ pc' = "project"
    /\ UNCHANGED configVars
    /\ UNCHANGED <<target, source, explicitName, envReads>>
    /\ UNCHANGED heapVars
    /\ UNCHANGED callVars
    /\ UNCHANGED utilVars

\* lines 56-60: the projection and the return
StepReturn ==
    /\ pc = "project"
    /\ config' = defineConfig(playwrightConfig(result))
    /\ pc' = "done"
    /\ UNCHANGED <<TEST_ENV, defaults, envConfig, overrides, activeName, consumerEnv>>
    /\ UNCHANGED <<explicitName, envReads>>
    /\ UNCHANGED mergeVars
    /\ UNCHANGED heapVars
    /\ UNCHANGED callVars
    /\ UNCHANGED utilVars

NextSteps ==
    \/ EnvChanges
    \/ StepLookup
    \/ StepMerge
    \/ StepReturn

SpecSteps == InitSteps /\ [][NextSteps]_vars

(***************************************************************************)
(* SpecCalls: two calls of createConfig in flight on one heap, each with   *)
(* an overrides object of its own, their statements interleaved in every   *)
(* order.  Each call allocates its own defaults literal and its own        *)
(* getEnvironment() object; its constants are local to the call.           *)
(***************************************************************************)
Calls == {1, 2}

\* Faulty variant of LocalSlot: the constants declared once for the module.
LocalSlotShared(c) == 1

\* envConfig, consumerEnvConfig, merged, final, finalWithConsumerEnv are
\* const declarations inside createConfig: one set per call
LocalSlot(c) == c

NoLocals ==
    [envConfig |-> Undefined, consumerEnvConfig |-> Undefined, merged |-> Undefined,
     final |-> Undefined, finalWithConsumerEnv |-> Undefined]

\* the defaults literal (lines 19-47): scalars, a nested object, an array
DefaultsLiteral ==
    Obj(("timeout" :> Num(1)) @@ ("use" :> Obj("baseURL" :> Num(1)))
        @@ ("projects" :> Arr(<<Num(1)>>)))

CallOverrides ==
    {EmptyObj,
     Obj("use" :> Obj("trace" :> Num(2))),
     Obj(("projects" :> Arr(<<Num(2)>>))
         @@ ("environments" :> Obj("staging" :> Obj("use" :> Obj("trace" :> Num(1))))))}

\* overrides.environments?.[process.env.TEST_ENV || ''] on the heap
LookupAt(h, o, testEnv) ==
    LET environments == IF "environments" \in DOMAIN OwnPropsAt(h, o)
                        THEN OwnPropsAt(h, o)["environments"] ELSE Undefined
    IN  IF environments.type \in {"undefined", "null"} THEN Undefined
        ELSE IF envKey(testEnv) \in DOMAIN OwnPropsAt(h, environments)
             THEN OwnPropsAt(h, environments)[envKey(testEnv)]
             ELSE Undefined

\* the addresses reachable from a heap value
RECURSIVE Reach(_, _)
Reach(h, v) ==
    IF IsRef(v)
    THEN LET cell == h[v.addr]
             held == IF cell.type = "array"
                     THEN {cell.elems[i] : i \in 1..Len(cell.elems)}
                     ELSE {cell.props[k] : k \in DOMAIN cell.props}
         IN  {v.addr} \cup UNION {Reach(h, w) : w \in held}
    ELSE {}

InitCalls ==
    /\ TEST_ENV \in {Undefined, Str("staging")}
    /\ \E o1 \in CallOverrides, o2 \in CallOverrides :
        LET s1 == Store(<<>>, o1)
            s2 == Store(s1.heap, o2)
        IN  /\ heap = s2.heap
            /\ inputs = <<[overrides |-> s1.value, tree |-> o1],
                          [overrides |-> s2.value, tree |-> o2]>>
    /\ locals = <<NoLocals, NoLocals>>
    /\ pcs = <<"lookup", "lookup">>
    /\ configs = <<Undefined, Undefined>>
    /\ UtilIdle
    /\ defaults = DefaultsLiteral
    /\ envConfig = getEnvironment
    /\ overrides = EmptyObj
    /\ activeName = Undefined
    /\ consumerEnv = Undefined
    /\ config = Undefined
    /\ explicitName = Undefined
    /\ pc = "none"
    /\ envReads = 0
    /\ target = Undefined
    /\ source = Undefined
    /\ result = Undefined
    /\ targetRef = Undefined
    /\ sourceRef = Undefined
    /\ resultRef = Undefined

CallFrame ==
    /\ UNCHANGED <<inputs, configVars, stepVars, mergeVars, utilVars>>
    /\ UNCHANGED <<targetRef, sourceRef, resultRef>>

\* lines 13-16: envConfig = getEnvironment(); consumerEnvConfig = ... || {}
CallLookup(c) ==
    /\ pcs[c] = "lookup"
    /\ LET e == Store(heap, getEnvironment)
           found == LookupAt(e.heap, inputs[c].overrides, TEST_ENV)
           o == IF Truthy(found) THEN [heap |-> e.heap, value |-> found]
                ELSE Store(e.heap, EmptyObj)
       IN  /\ heap' = o.heap
           /\ locals' = [locals EXCEPT ![LocalSlot(c)].envConfig = e.value,
                                       ![LocalSlot(c)].consumerEnvConfig = o.value]
    /\ pcs' = [pcs EXCEPT ![c] = "merged"]
    /\ UNCHANGED configs
    /\ CallFrame

\* lines 19-50: the defaults literal; merged = deepMerge(defaults, overrides)
CallMerged(c) ==
    /\ pcs[c] = "merged"
    /\ LET d == Store(heap, defaults)
           m == deepMergeAt(d.heap, d.value, inputs[c].overrides)
       IN  /\ heap' = m.heap
           /\ locals' = [locals EXCEPT ![LocalSlot(c)].merged = m.value]
    /\ pcs' = [pcs EXCEPT ![c] = "final"]
    /\ UNCHANGED configs
    /\ CallFrame

\* line 53: final = deepMerge(merged, envConfig)
CallFinal(c) ==
    /\ pcs[c] = "final"
    /\ LET m == deepMergeAt(heap, locals[LocalSlot(c)].merged,
                            locals[LocalSlot(c)].envConfig)
       IN  /\ heap' = m.heap
           /\ locals' = [locals EXCEPT ![LocalSlot(c)].final = m.value]
    /\ pcs' = [pcs EXCEPT ![c] = "overlay"]
    /\ UNCHANGED configs
    /\ CallFrame

\* line 54: finalWithConsumerEnv = deepMerge(final, consumerEnvConfig)
CallOverlay(c) ==
    /\ pcs[c] = "overlay"
    /\ LET m == deepMergeAt(heap, locals[LocalSlot(c)].final,
                            locals[LocalSlot(c)].consumerEnvConfig)
       IN  /\ heap' = m.heap
           /\ locals' = [locals EXCEPT ![LocalSlot(c)].finalWithConsumerEnv = m.value]
    /\ pcs' = [pcs EXCEPT ![c] = "project"]
    /\ UNCHANGED configs
    /\ CallFrame

\* lines 56-60: the rest object without `environments`; return
CallReturn(c) ==
    /\ pcs[c] = "project"
    /\ LET f == OwnPropsAt(heap, locals[LocalSlot(c)].finalWithConsumerEnv)
           rest == [key \in (DOMAIN f) \ {"environments"} |-> f[key]]
       IN  /\ heap' = Append(heap, [type |-> "object", props |-> rest])
           /\ configs' = [configs EXCEPT ![c] = Ref(Len(heap) + 1)]
    /\ pcs' = [pcs EXCEPT ![c] = "done"]
    /\ UNCHANGED locals
    /\ CallFrame

NextCalls ==
    \/ \E c \in Calls : CallLookup(c)
    \/ \E c \in Calls : CallMerged(c)
    \/ \E c \in Calls : CallFinal(c)
    \/ \E c \in Calls : CallOverlay(c)
    \/ \E c \in Calls : CallReturn(c)

SpecCalls == InitCalls /\ [][NextCalls]_vars

(***************************************************************************)
(* SpecSeq: createConfig called again and again in one process, with       *)
(* different arguments and process.env.TEST_ENV changing between calls;    *)
(* history lists the calls made, each with what it was given and returned. *)
(***************************************************************************)
MaxCalls == 4

RetriesOverlay == Obj("staging" :> Obj("retries" :> Num(1)))
SeqOverrides ==
    {EmptyObj, Obj(("timeout" :> Num(2)) @@ ("environments" :> RetriesOverlay))}

InitSeq ==
    /\ TEST_ENV = Undefined
    /\ defaults \in {Obj("timeout" :> Num(1)), DefaultsLiteral}
    /\ envConfig = Undefined
    /\ overrides = EmptyObj
    /\ activeName = Undefined
    /\ consumerEnv = Undefined
    /\ config = Undefined
    /\ history = <<>>
    /\ target = Undefined
    /\ source = Undefined
    /\ result = Undefined
    /\ heap = <<>>
    /\ targetRef = Undefined
    /\ sourceRef = Undefined
    /\ resultRef = Undefined
    /\ explicitName = Undefined
    /\ pc = "none"
    /\ envReads = 0
    /\ inputs = <<>>
    /\ locals = <<>>
    /\ pcs = <<>>
    /\ configs = <<>>
    /\ retry = Undefined
    /\ poll = Undefined
    /\ logger = Undefined
    /\ files = Undefined
    /\ netIdle = Undefined

\* process.env.TEST_ENV set or deleted between two calls
SeqEnvChanges ==
    /\ \/ \E name \in EnvNames : TEST_ENV' = Str(name)
       \/ TEST_ENV' = Undefined
    /\ UNCHANGED <<defaults, envConfig, overrides, activeName, consumerEnv, config>>
    /\ UNCHANGED history
    /\ UNCHANGED <<mergeVars, heapVars, stepVars, callVars>>
    /\ UNCHANGED <<retry, poll, logger, files, netIdle>>

\* config = createConfig(o), one more call
Resolve(o) ==
    /\ Len(history) < MaxCalls
    /\ overrides' = o
    /\ envConfig' = getEnvironment
    /\ config' = createConfig(defaults, envConfig', o, TEST_ENV)
    /\ activeName' = TEST_ENV
    /\ consumerEnv' = consumerEnvConfig(o, TEST_ENV)
    /\ history' = Append(history, [defaults |-> defaults, envConfig |-> envConfig',
                                   overrides |-> o, activeName |-> TEST_ENV,
                                   config |-> config'])
    /\ UNCHANGED <<TEST_ENV, defaults>>
    /\ UNCHANGED <<mergeVars, heapVars, stepVars, callVars>>
    /\ UNCHANGED <<retry, poll, logger, files, netIdle>>

NextSeq ==
    \/ SeqEnvChanges
    \/ \E o \in SeqOverrides : Resolve(o)

SpecSeq == InitSeq /\ [][NextSeq]_vars

(***************************************************************************)
(* SpecRetry: retryAction(fn, maxRetries, delayMs)                         *)
(* (src/utils/WaitHelpers.ts).  Every invocation of fn either returns a    *)
(* value or throws an error; trace lists the invocations of fn and the     *)
(* timers awaited, in order.                                               *)
(***************************************************************************)
MaxRetriesBound == 2
Payloads == {1, 2}
Delays == {0, 5}

\* Faulty variant of shouldDelay: the timer awaited after every failure.
shouldDelayAlways(attempt, maxRetries) == TRUE

\* line 23: if (attempt < maxRetries)
shouldDelay(attempt, maxRetries) == attempt < maxRetries

FnEvent(ok, payload) == [kind |-> "fn", ok |-> ok, payload |-> payload]
SleepEvent(ms) == [kind |-> "sleep", ms |-> ms]

InitRetry ==
    /\ CoreIdle
    /\ history = Undefined
    /\ \E maxRetries \in -1..MaxRetriesBound, delayMs \in Delays :
        retry = [maxRetries |-> maxRetries, delayMs |-> delayMs, attempt |-> 0,
                 lastError |-> Undefined, pc |-> "loop", settled |-> Undefined,
                 trace |-> <<>>]
    /\ poll = Undefined
    /\ logger = Undefined
    /\ files = Undefined
    /\ netIdle = Undefined

RetryFrame ==
    /\ UNCHANGED coreVars
    /\ UNCHANGED <<history, poll, logger, files, netIdle>>

\* lines 18-20: the loop condition holds, fn() is awaited and returns
RetryFnReturns(value) ==
    /\ retry.pc = "loop"
    /\ retry.attempt <= retry.maxRetries
    /\ retry' = [retry EXCEPT !.pc = "resolved",
                              !.settled = [resolved |-> value],
                              !.trace = Append(@, FnEvent(TRUE, value))]
    /\ RetryFrame

\* lines 18-26: fn() throws; the error is kept and, unless this was the
\* last attempt, the timer is started
RetryFnThrows(error) ==
    /\ retry.pc = "loop"
    /\ retry.attempt <= retry.maxRetries
    /\ retry' = [retry EXCEPT
                    !.lastError = [error |-> error],
                    !.pc = IF shouldDelay(retry.attempt, retry.maxRetries)
                           THEN "sleep" ELSE "loop",
                    !.attempt = IF shouldDelay(retry.attempt, retry.maxRetries)
                                THEN @ ELSE @ + 1,
                    !.trace = Append(@, FnEvent(FALSE, error))]
    /\ RetryFrame

\* line 24: the timer fires after delayMs; attempt++
RetryTimerFires ==
    /\ retry.pc = "sleep"
    /\ retry' = [retry EXCEPT !.pc = "loop",
                              !.attempt = @ + 1,
                              !.trace = Append(@, SleepEvent(retry.delayMs))]
    /\ RetryFrame

\* line 29: the loop is over; throw lastError
RetryThrows ==
    /\ retry.pc = "loop"
    /\ retry.attempt > retry.maxRetries
    /\ retry' = [retry EXCEPT !.pc = "rejected",
                              !.settled = [rejected |-> retry.lastError]]
    /\ RetryFrame

NextRetry ==
    \/ \E value \in Payloads : RetryFnReturns(value)
    \/ \E error \in Payloads : RetryFnThrows(error)
    \/ RetryTimerFires
    \/ RetryThrows

SpecRetry == InitRetry /\ [][NextRetry]_vars

(***************************************************************************)
(* SpecPoll: pollUntil(fn, timeoutMs, intervalMs)                          *)
(* (src/utils/WaitHelpers.ts).  now is Date.now(); an invocation of fn     *)
(* takes some time and returns true, returns false or throws; trace lists  *)
(* the invocations with the time they began and ended.                     *)
(***************************************************************************)
Timeouts == {0, 3, 6}
Intervals == {1, 2}
FnDurations == {0, 1, 4}
FnOutcomes == {"true", "false", "throws"}

\* line 53: new Error(`Polling condition not met within ${timeoutMs}ms`)
PollingError(timeoutMs) ==
    [rejected |-> [message |-> "Polling condition not met within", ms |-> timeoutMs]]

\* the error fn threw, passed on by the await at line 47
FnError == [rejected |-> [message |-> "thrown by fn", ms |-> 0]]

\* line 46: Date.now() - startTime < timeoutMs
withinTimeout(now, startTime, timeoutMs) == now - startTime < timeoutMs

InitPoll ==
    /\ CoreIdle
    /\ history = Undefined
    /\ retry = Undefined
    /\ \E timeoutMs \in Timeouts, intervalMs \in Intervals :
        poll = [timeoutMs |-> timeoutMs, intervalMs |-> intervalMs, startTime |-> 0,
                now |-> 0, pc |-> "check", settled |-> Undefined, trace |-> <<>>]
    /\ logger = Undefined
    /\ files = Undefined
    /\ netIdle = Undefined

PollFrame ==
    /\ UNCHANGED coreVars
    /\ UNCHANGED <<history, retry, logger, files, netIdle>>

\* lines 46-47: the loop condition holds and fn is invoked
PollInvokes ==
    /\ poll.pc = "check"
    /\ withinTimeout(poll.now, poll.startTime, poll.timeoutMs)
    /\ poll' = [poll EXCEPT !.pc = "fn",
                            !.trace = Append(@, [began |-> poll.now,
                                                 ended |-> poll.now,
                                                 outcome |-> "pending"])]
    /\ PollFrame

\* lines 47-50: the promise of fn settles after d ms: true returns, false
\* starts the timer, an error leaves the function
PollFnSettles(d, outcome) ==
    /\ poll.pc = "fn"
    /\ poll' = [poll EXCEPT
                    !.now = @ + d,
                    !.pc = CASE outcome = "true" -> "resolved"
                             [] outcome = "false" -> "sleep"
                             [] OTHER -> "rejected",
                    !.settled = CASE outcome = "true" -> [resolved |-> Undefined]
                                  [] outcome = "false" -> @
                                  [] OTHER -> FnError,
                    !.trace[Len(poll.trace)] =
                        [began |-> @.began, ended |-> poll.now + d, outcome |-> outcome]]
    /\ PollFrame

\* line 50: the timer fires after intervalMs
PollTimerFires ==
    /\ poll.pc = "sleep"
    /\ poll' = [poll EXCEPT !.now = @ + poll.intervalMs, !.pc = "check"]
    /\ PollFrame

\* lines 46, 53: the loop condition fails; throw
PollTimesOut ==
    /\ poll.pc = "check"
    /\ ~withinTimeout(poll.now, poll.startTime, poll.timeoutMs)
    /\ poll' = [poll EXCEPT !.pc = "rejected", !.settled = PollingError(poll.timeoutMs)]
    /\ PollFrame

NextPoll ==
    \/ PollInvokes
    \/ \E d \in FnDurations, outcome \in FnOutcomes : PollFnSettles(d, outcome)
    \/ PollTimerFires
    \/ PollTimesOut

SpecPoll == InitPoll /\ [][NextPoll]_vars

(***************************************************************************)
(* SpecLogger: the static class Logger (src/utils/Logger.ts).  logLevel is *)
(* fixed when the class is loaded, from process.env.LOG_LEVEL; calls       *)
(* lists the debug/info/warn/error calls made since the last clearLogs.    *)
(* The timestamp and the context of an entry are left out.                 *)
(***************************************************************************)
MaxLogCalls == 3

\* line 79: const levels = ['debug', 'info', 'warn', 'error']
levels == <<"debug", "info", "warn", "error">>
LogLevels == {levels[i] : i \in 1..Len(levels)}
LogMessages == {"a", "b"}

\* values of process.env.LOG_LEVEL: unset, empty, a level, something else
LogLevelSettings == {Undefined, Str(""), Str("verbose")} \cup {Str(l) : l \in LogLevels}

\* levels.indexOf(level): the position from 0, or -1
indexOf(seq, x) ==
    IF \E i \in 1..Len(seq) : seq[i] = x
    THEN (CHOOSE i \in 1..Len(seq) : seq[i] = x /\ \A j \in 1..(i - 1) : seq[j] # x) - 1
    ELSE -1

\* Faulty variant of shouldLog: the configured level itself is dropped.
shouldLogAbove(level, logLevel) == indexOf(levels, level) > indexOf(levels, logLevel)

\* lines 78-81
shouldLog(level, logLevel) == indexOf(levels, level) >= indexOf(levels, logLevel)

\* line 18: (process.env.LOG_LEVEL as LogLevel) || 'info'
initialLogLevel(setting) == IF Truthy(setting) THEN setting.value ELSE "info"

\* lines 87-89: return [...Logger.logs]
getLogs(lg) == [i \in 1..Len(lg.logs) |-> lg.logs[i]]

InitLogger ==
    /\ CoreIdle
    /\ history = Undefined
    /\ retry = Undefined
    /\ poll = Undefined
    /\ \E setting \in LogLevelSettings :
        logger = [LOG_LEVEL |-> setting, logLevel |-> initialLogLevel(setting),
                  logs |-> <<>>, calls |-> <<>>]
    /\ files = Undefined
    /\ netIdle = Undefined

LoggerFrame ==
    /\ UNCHANGED coreVars
    /\ UNCHANGED <<history, retry, poll, files, netIdle>>

\* Logger.debug / info / warn / error (message): lines 34-76
Log(level, message) ==
    /\ Len(logger.calls) < MaxLogCalls
    /\ logger' = [logger EXCEPT
                    !.logs = IF shouldLog(level, logger.logLevel)
                             THEN Append(@, [level |-> level, message |-> message])
                             ELSE @,
                    !.calls = Append(@, [level |-> level, message |-> message])]
    /\ LoggerFrame

\* Logger.clearLogs(): lines 94-96
ClearLogs ==
    /\ logger.calls # <<>>
    /\ logger' = [logger EXCEPT !.logs = <<>>, !.calls = <<>>]
    /\ LoggerFrame

NextLogger ==
    \/ \E level \in LogLevels, message \in LogMessages : Log(level, message)
    \/ ClearLogs

SpecLogger == InitLogger /\ [][NextLogger]_vars

(***************************************************************************)
(* SpecFiles: FileUtils.createTempFile and cleanupTempFiles                *)
(* (src/utils/FileUtils.ts).  disk is the set of paths that exist; the     *)
(* file name comes from the clock and a random number, so two calls may    *)
(* produce the same path; unlinkSync may throw for any file.               *)
(***************************************************************************)
MaxTempFiles == 3
Paths == {"p1", "p2", "p3"}

RECURSIVE unlinkTracked(_, _, _, _)
\* Faulty variant of unlinkTracked: no try/catch around the deletion.
unlinkNoCatch(tempFiles, i, disk, failing) ==
    IF i > Len(tempFiles) THEN [disk |-> disk, threw |-> FALSE]
    ELSE IF tempFiles[i] \in disk
         THEN IF tempFiles[i] \in failing
              THEN [disk |-> disk, threw |-> TRUE]
              ELSE unlinkTracked(tempFiles, i + 1, disk \ {tempFiles[i]}, failing)
         ELSE unlinkTracked(tempFiles, i + 1, disk, failing)

\* lines 44-52: for every tracked path from position i on: if it exists,
\* unlink it; an error of unlinkSync is caught and warned about
unlinkTracked(tempFiles, i, disk, failing) ==
    IF i > Len(tempFiles) THEN [disk |-> disk, threw |-> FALSE]
    ELSE IF tempFiles[i] \in disk /\ tempFiles[i] \notin failing
         THEN unlinkTracked(tempFiles, i + 1, disk \ {tempFiles[i]}, failing)
         ELSE unlinkTracked(tempFiles, i + 1, disk, failing)

InitFiles ==
    /\ CoreIdle
    /\ history = Undefined
    /\ retry = Undefined
    /\ poll = Undefined
    /\ logger = Undefined
    /\ files = [tempFiles |-> <<>>, disk |-> {}, created |-> {}, last |-> "load",
                tracked |-> {}, failed |-> {}, threw |-> FALSE]
    /\ netIdle = Undefined

FilesFrame ==
    /\ UNCHANGED coreVars
    /\ UNCHANGED <<history, retry, poll, logger, netIdle>>

\* lines 29-38: the file is written and its path pushed
CreateTempFile(filePath) ==
    /\ Len(files.tempFiles) < MaxTempFiles
    /\ files' = [files EXCEPT !.tempFiles = Append(@, filePath),
                              !.disk = @ \cup {filePath},
                              !.created = @ \cup {filePath},
                              !.last = "createTempFile"]
    /\ FilesFrame

\* lines 43-54; failing: the files unlinkSync throws for.  When the loop
\* throws, line 53 is not reached.
CleanupTempFiles(failing) ==
    /\ files.last # "cleanupTempFiles"
    /\ LET u == unlinkTracked(files.tempFiles, 1, files.disk, failing)
           trackedNow == {files.tempFiles[i] : i \in 1..Len(files.tempFiles)}
       IN  files' = [files EXCEPT
                        !.tempFiles = IF u.threw THEN @ ELSE <<>>,
                        !.disk = u.disk,
                        !.created = {},
                        !.last = "cleanupTempFiles",
                        !.tracked = trackedNow,
                        !.failed = trackedNow \cap files.disk \cap failing,
                        !.threw = u.threw]
    /\ FilesFrame

\* somebody else deletes a file
DeletedElsewhere(filePath) ==
    /\ filePath \in files.disk
    /\ files' = [files EXCEPT !.disk = @ \ {filePath}, !.last = "elsewhere"]
    /\ FilesFrame

NextFiles ==
    \/ \E filePath \in Paths : CreateTempFile(filePath)
    \/ \E failing \in SUBSET Paths : CleanupTempFiles(failing)
    \/ \E filePath \in Paths : DeletedElsewhere(filePath)

SpecFiles == InitFiles /\ [][NextFiles]_vars

(***************************************************************************)
(* SpecNetIdle: waitForNetworkIdle(page, idleTimeMs)                       *)
(* (src/utils/WaitHelpers.ts).  now is the clock in ms; a timer is known   *)
(* by the time it is due and may fire late; the page emits request and     *)
(* response events at any time, before and after the promise resolves.     *)
(***************************************************************************)
MaxTime == 6
IdleTimes == {0, 2, 3}
PageEvents == {"request", "response"}

\* Faulty variant of resetTimer: the pending timer is not cleared.
resetTimerNoClear(n) ==
    [n EXCEPT !.timers = @ \cup {n.now + n.idleTimeMs},
              !.timeoutId = n.now + n.idleTimeMs]

\* lines 68-75: clearTimeout(timeoutId); timeoutId = setTimeout(..., idleTimeMs)
resetTimer(n) ==
    [n EXCEPT !.timers = (@ \ {n.timeoutId}) \cup {n.now + n.idleTimeMs},
              !.timeoutId = n.now + n.idleTimeMs]

\* lines 65-81 at the time of the call: both listeners, the first timer
InitNetIdle ==
    /\ CoreIdle
    /\ history = Undefined
    /\ retry = Undefined
    /\ poll = Undefined
    /\ logger = Undefined
    /\ files = Undefined
    /\ \E idleTimeMs \in IdleTimes :
        netIdle = resetTimer([idleTimeMs |-> idleTimeMs, now |-> 0, startTime |-> 0,
                              timers |-> {}, timeoutId |-> -1,
                              listeners |-> PageEvents, resolved |-> FALSE,
                              resolvedAt |-> -1, lastEmitted |-> -1,
                              quietBefore |-> -1, emittedAfter |-> FALSE])

NetIdleFrame ==
    /\ UNCHANGED coreVars
    /\ UNCHANGED <<history, retry, poll, logger, files>>

\* a millisecond passes
NetIdleTick ==
    /\ netIdle.now < MaxTime
    /\ netIdle' = [netIdle EXCEPT !.now = @ + 1]
    /\ NetIdleFrame

\* the page emits a request or a response event: the listener, if still
\* registered, runs resetTimer
PageEmits(event) ==
    /\ LET heard == IF event \in netIdle.listeners THEN resetTimer(netIdle) ELSE netIdle
       IN  netIdle' = [heard EXCEPT !.lastEmitted = netIdle.now,
                                    !.emittedAfter = netIdle.resolved]
    /\ NetIdleFrame

\* lines 70-74: a pending timer that is due fires: listeners off, resolve()
TimerFires(due) ==
    /\ due \in netIdle.timers
    /\ netIdle.now >= due
    /\ netIdle' = [netIdle EXCEPT
                      !.timers = @ \ {due},
                      !.listeners = {},
                      !.resolved = TRUE,
                      !.resolvedAt = IF netIdle.resolved THEN @ ELSE netIdle.now,
                      !.quietBefore = IF netIdle.resolved THEN @ ELSE netIdle.lastEmitted]
    /\ NetIdleFrame

NextNetIdle ==
    \/ NetIdleTick
    \/ \E event \in PageEvents : PageEmits(event)
    \/ \E due \in 0..(MaxTime + 3) : TimerFires(due)

SpecNetIdle == InitNetIdle /\ [][NextNetIdle]_vars

(***************************************************************************)
(* Vocabulary of the merge claims.                                         *)
(***************************************************************************)
MergeDone == result # Undefined

\* the keys of a configuration-tree object (none for a scalar or an array)
KeysOf(v) == IF IsPlainObject(v) THEN DOMAIN v.props ELSE {}

IsScalar(v) == v.type \in {"number", "null"}

\* The merge rules as the specification words them, as a relation between
\* a result r, a base b and a patch p (both objects).
RECURSIVE IsMergeOf(_, _, _)

MergedByRules(rv, bv, pv) ==
    IF IsArray(pv) THEN rv = pv
    ELSE IF IsPlainObject(bv) /\ IsPlainObject(pv) THEN IsMergeOf(rv, bv, pv)
    ELSE rv = pv

IsMergeOf(r, b, p) ==
    /\ IsPlainObject(r)
    /\ DOMAIN r.props = (DOMAIN b.props) \cup (DOMAIN p.props)
    /\ \A k \in (DOMAIN b.props) \ (DOMAIN p.props) : r.props[k] = b.props[k]
    /\ \A k \in (DOMAIN p.props) \ (DOMAIN b.props) : r.props[k] = p.props[k]
    /\ \A k \in (DOMAIN b.props) \cap (DOMAIN p.props) :
            MergedByRules(r.props[k], b.props[k], p.props[k])

\* C2 (deep object merge): at every key where base and patch both hold a
\* non-array object, the result holds their recursive merge: keys only in
\* base keep base's value, keys only in patch get patch's value, keys in
\* both are merged by the same rules.
C2_DeepObjectMerge ==
    MergeDone =>
        \A k \in KeysOf(target) \cap KeysOf(source) :
            (IsPlainObject(target.props[k]) /\ IsPlainObject(source.props[k]))
            => /\ k \in KeysOf(result)
               /\ IsMergeOf(result.props[k], target.props[k], source.props[k])

\* a merge of two nested objects with a key only in base, and a key in both
\* whose values are again objects with different keys
C2_Witness ==
    /\ MergeDone
    /\ \E k \in KeysOf(target) \cap KeysOf(source) :
        LET b == target.props[k]
            p == source.props[k]
        IN  /\ IsPlainObject(b) /\ IsPlainObject(p)
            /\ (DOMAIN b.props) \ (DOMAIN p.props) # {}
            /\ \E j \in (DOMAIN b.props) \cap (DOMAIN p.props) :
                    /\ IsPlainObject(b.props[j]) /\ IsPlainObject(p.props[j])
                    /\ b.props[j] # p.props[j]
                    /\ p.props[j] # EmptyObj

\* C3 (array atomicity): at every key where patch holds an array the result
\* holds exactly that array, whatever base holds there.
C3_ArrayAtomicity ==
    MergeDone =>
        \A k \in KeysOf(source) :
            IsArray(source.props[k])
            => (k \in KeysOf(result) /\ result.props[k] = source.props[k])

\* a non-empty base array replaced by a different patch array
C3_Witness ==
    /\ MergeDone
    /\ \E k \in KeysOf(target) \cap KeysOf(source) :
            /\ IsArray(target.props[k]) /\ IsArray(source.props[k])
            /\ Len(target.props[k].elems) > 0
            /\ target.props[k] # source.props[k]
            /\ result.props[k] = source.props[k]

\* C4 as claimed (identity on every tree): merge(x, {}) deep-equals x for
\* every tree x, an array or a scalar at the root included.
C4_IdentityAllTrees ==
    (MergeDone /\ source = EmptyObj) => result = target

\* C4 amended (identity on objects): for every object x, merge(x, {})
\* deep-equals x.
C4_IdentityOnObjects ==
    (MergeDone /\ source = EmptyObj /\ IsPlainObject(target)) => result = target

\* an object with a nested object merged with {}
C4_Witness ==
    /\ MergeDone
    /\ source = EmptyObj
    /\ IsPlainObject(target)
    /\ \E k \in KeysOf(target) :
            IsPlainObject(target.props[k]) /\ target.props[k] # EmptyObj

\* C5 (right-bias): where base holds any tree x at key k and patch holds a
\* scalar v at k, the result holds v at k.
C5_RightBias ==
    MergeDone =>
        \A k \in KeysOf(target) \cap KeysOf(source) :
            IsScalar(source.props[k])
            => (k \in KeysOf(result) /\ result.props[k] = source.props[k])

\* a base value (an object here) overridden by a different scalar
C5_Witness ==
    /\ MergeDone
    /\ \E k \in KeysOf(target) \cap KeysOf(source) :
            /\ IsScalar(source.props[k])
            /\ IsPlainObject(target.props[k])
            /\ target.props[k] # EmptyObj

\* C6 (type change): at every key of patch whose value is not an array and
\* where base and patch are not both non-array objects, the result holds
\* exactly patch's value.
C6_TypeChange ==
    MergeDone =>
        \A k \in KeysOf(source) :
            LET pv == source.props[k]
                bv == IF k \in KeysOf(target) THEN target.props[k] ELSE Undefined
            IN  (~IsArray(pv) /\ ~(IsPlainObject(bv) /\ IsPlainObject(pv)))
                => (k \in KeysOf(result) /\ result.props[k] = pv)

\* an object of patch replacing an array of base
C6_Witness ==
    /\ MergeDone
    /\ \E k \in KeysOf(target) \cap KeysOf(source) :
            /\ IsPlainObject(source.props[k])
            /\ IsArray(target.props[k])
            /\ Len(target.props[k].elems) > 0

\* C7 (frame of merge): for object base and patch, every key of base absent
\* from patch is in the result with base's value, and the result has no
\* key that is in neither.
C7_Frame ==
    (MergeDone /\ IsPlainObject(target) /\ IsPlainObject(source)) =>
        /\ IsPlainObject(result)
        /\ \A k \in KeysOf(target) \ KeysOf(source) :
                k \in KeysOf(result) /\ result.props[k] = target.props[k]
        /\ KeysOf(result) \subseteq KeysOf(target) \cup KeysOf(source)

\* a base key holding an object, absent from a non-empty patch
C7_Witness ==
    /\ MergeDone
    /\ IsPlainObject(target) /\ IsPlainObject(source)
    /\ KeysOf(source) # {}
    /\ \E k \in KeysOf(target) \ KeysOf(source) :
            IsPlainObject(target.props[k]) /\ target.props[k] # EmptyObj

(***************************************************************************)
(* Vocabulary of the createConfig claims.                                  *)
(***************************************************************************)
ConfigDone == config # Undefined

\* the call read a TEST_ENV that names a key of overrides.environments
NamesOverlay ==
    /\ ConfigDone
    /\ activeName.type = "string"
    /\ "environments" \in KeysOf(overrides)
    /\ activeName.value \in KeysOf(overrides.props["environments"])

\* the layer stored under that key
SelectedOverlay == overrides.props["environments"].props[activeName.value]

\* the call read no TEST_ENV, or an empty one
NameAbsent == ConfigDone /\ ~Truthy(activeName)

\* overrides with its environments map removed
OverridesWithoutEnvironments ==
    Obj([k \in KeysOf(overrides) \ {"environments"} |-> overrides.props[k]])

C9_Projection ==
    ConfigDone => (IsPlainObject(config) /\ "environments" \notin KeysOf(config))

\* a call where defaults, autodetected, override and the selected overlay
\* all carry an `environments` key
C9_Witness ==
    /\ NamesOverlay
    /\ "environments" \in KeysOf(SelectedOverlay)
    /\ "environments" \in KeysOf(defaults) \cap KeysOf(envConfig)

\* C10 (absent activeName): when TEST_ENV is unset or empty no overlay is
\* applied, whatever the overlay map holds: the returned config equals the
\* one obtained from the same override with its environments map removed.
C10_AbsentNameNoOverlay ==
    NameAbsent =>
        config = createConfig(defaults, envConfig, OverridesWithoutEnvironments,
                              activeName)

(***************************************************************************)
(* The heap claims.                                                        *)
(***************************************************************************)
HeapMergeDone == resultRef # Undefined

\* C8 (no mutation): after merge(base, patch) returns, base and patch
\* deep-equal (at every depth) what they were before the call, and the
\* returned root is a new object, distinct from base and from patch.
C8_InputsNotMutated ==
    HeapMergeDone =>
        /\ Deref(heap, targetRef) = target
        /\ Deref(heap, sourceRef) = source
        /\ IsRef(resultRef)
        /\ resultRef # targetRef
        /\ resultRef # sourceRef

\* a merge that changed something at the root and inside a nested object:
\* the result differs from base at a key where both hold objects
C8_Witness ==
    /\ HeapMergeDone
    /\ \E k \in KeysOf(target) \cap KeysOf(source) :
            /\ IsPlainObject(target.props[k]) /\ IsPlainObject(source.props[k])
            /\ result.props[k] # target.props[k]
            /\ result.props[k] # source.props[k]
    /\ KeysOf(source) \ KeysOf(target) # {}

\* the heap computation returns the tree the value computation returns
HeapAgreesWithValues ==
    HeapMergeDone => result = deepMerge(target, source)

\* the call read a non-empty TEST_ENV that is no key of overrides.environments
NameNotAKey ==
    /\ ConfigDone
    /\ Truthy(activeName)
    /\ ~("environments" \in KeysOf(overrides)
         /\ activeName.value \in KeysOf(overrides.props["environments"]))

\* project(t) as the specification words it: t without its `environments` key
ProjectOf(t) == Obj([k \in KeysOf(t) \ {"environments"} |-> t.props[k]])

\* t.k, or undefined where t is no object or has no key k
At(t, k) == IF k \in KeysOf(t) THEN t.props[k] ELSE Undefined

\* C11 (missing overlay is a no-op): with an empty autodetected layer, for
\* every activeName that is no key of override.environments the resolved
\* config equals the one resolved with activeName absent.
C11_MissingOverlayNoOp ==
    (NameNotAKey /\ envConfig = EmptyObj)
    => config = createConfig(defaults, EmptyObj, overrides, Undefined)

\* C12 (selector returns the stored layer): when activeName is a key of the
\* overlay map, the selected overlay is exactly the layer stored under that
\* key, whatever its value.
C12_SelectsStoredLayer ==
    NamesOverlay => consumerEnv = SelectedOverlay

\* C13 (no overrides): with an empty override layer (and the autodetected
\* layer getEnvironment returns), for every activeName the resolved config
\* is project(defaults).
C13_NoOverrides ==
    (ConfigDone /\ overrides = EmptyObj /\ envConfig = getEnvironment)
    => config = ProjectOf(defaults)

\* createConfig() under a set TEST_ENV, the defaults holding a nested
\* object and an `environments` map
C13_Witness ==
    /\ ConfigDone
    /\ overrides = EmptyObj
    /\ envConfig = getEnvironment
    /\ activeName = Str("staging")
    /\ "environments" \in KeysOf(defaults)
    /\ IsPlainObject(At(defaults, "timeout"))

RECURSIVE ArraysKept(_, _)
ArraysKept(ov, cfg) ==
    \A k \in KeysOf(ov) :
        /\ IsArray(ov.props[k]) => At(cfg, k) = ov.props[k]
        /\ IsPlainObject(ov.props[k]) => ArraysKept(ov.props[k], At(cfg, k))

ProjectionError == [type |-> "error", name |-> "ProjectionError"]

\* C17 (ProjectionError): when the accumulated tree reaching the projection
\* has an `environments` key whose value is no mapping (a scalar, null or an
\* array), resolve fails with ProjectionError and returns no config.
C17_ProjectionErrorRaised ==
    ConfigDone =>
        LET acc == finalWithConsumerEnv(defaults, envConfig, overrides, activeName)
        IN  ("environments" \in KeysOf(acc) /\ ~IsPlainObject(acc.props["environments"]))
            => config = ProjectionError

\* C16 (root-level non-object patch): when patch at the root is no object
\* (a scalar, null or an array), merge(base, patch) is exactly patch.
C16_RootPatchReplaces ==
    (MergeDone /\ ~IsPlainObject(source)) => result = source

(***************************************************************************)
(* The claims about the name createConfig resolves with.                   *)
(***************************************************************************)
StepsDone == pc = "done"

\* the name the specification's precedence picks: the explicit one when
\* non-empty, else the environment variable's value the call read
ClaimedName == IF Truthy(explicitName) THEN explicitName ELSE activeName

\* C18 (activeName precedence): a non-empty explicit call-time activeName is
\* used and the environment variable ignored; otherwise TEST_ENV is used
\* when non-empty; otherwise activeName is absent.
C18_ExplicitNameFirst ==
    StepsDone =>
        /\ consumerEnv = consumerEnvConfig(overrides, ClaimedName)
        /\ config = createConfig(defaults, envConfig, overrides, ClaimedName)

\* C19 (environment snapshot): one call reads TEST_ENV exactly once, and
\* whatever changes of the variable interleave with the call, the overlay
\* merged is the one selected by the value read and the result is that of a
\* call run entirely under that value.
C19_EnvSnapshot ==
    /\ (pc \in {"merge", "project", "done"}) =>
            /\ envReads = 1
            /\ consumerEnv = consumerEnvConfig(overrides, activeName)
    /\ StepsDone => config = createConfig(defaults, envConfig, overrides, activeName)

\* the call is past its read, the variable has since changed to a value
\* that selects a different overlay, and the call is still running
C19_Witness ==
    /\ pc \in {"merge", "project"}
    /\ TEST_ENV # activeName
    /\ consumerEnvConfig(overrides, TEST_ENV) # consumerEnv
    /\ createConfig(defaults, envConfig, overrides, TEST_ENV)
         # createConfig(defaults, envConfig, overrides, activeName)

(***************************************************************************)
(* The claim about two calls in flight.                                    *)
(***************************************************************************)
Other(c) == 3 - c

\* what call c returns when it runs alone, one call after the other
SequentialResult(c) == createConfig(defaults, envConfig, inputs[c].tree, TEST_ENV)

\* what call c may reach: its argument and, once returned, its result
ReachOfCall(c) ==
    Reach(heap, inputs[c].overrides)
        \cup (IF pcs[c] = "done" THEN Reach(heap, configs[c]) ELSE {})

\* C20 (concurrency independence): in every interleaving of the statements
\* of two calls with disjoint inputs each call returns what it returns when
\* the two run one after the other, and neither call changes a structure
\* reachable from the other's inputs or result.
C20_Independence ==
    \A c \in Calls :
        /\ Deref(heap, inputs[c].overrides) = inputs[c].tree
        /\ pcs[c] = "done" => Deref(heap, configs[c]) = SequentialResult(c)
        /\ ReachOfCall(c) \cap ReachOfCall(Other(c)) = {}

\* both calls have returned different configs from different arguments, and
\* the order of allocation shows their statements alternated: merged of 1,
\* merged of 2, final of 1, final of 2
C20_Witness ==
    /\ pcs = <<"done", "done">>
    /\ inputs[1].tree # inputs[2].tree
    /\ Deref(heap, configs[1]) # Deref(heap, configs[2])
    /\ locals[1].merged.addr < locals[2].merged.addr
    /\ locals[2].merged.addr < locals[1].final.addr
    /\ locals[1].final.addr < locals[2].final.addr

(***************************************************************************)
(* The claim about calls made one after another.                           *)
(***************************************************************************)
SameGiven(a, b) ==
    /\ a.defaults = b.defaults
    /\ a.envConfig = b.envConfig
    /\ a.overrides = b.overrides
    /\ a.activeName = b.activeName

Accumulated == finalWithConsumerEnv(defaults, envConfig, overrides, activeName)

\* C22 (frame of project): only the top-level `environments` key is
\* removed; every other top-level key of the accumulated tree is in the
\* returned config with its subtree unchanged, a nested key named
\* `environments` included.
C22_ProjectFrame ==
    ConfigDone =>
        /\ KeysOf(config) = KeysOf(Accumulated) \ {"environments"}
        /\ \A k \in KeysOf(config) : config.props[k] = Accumulated.props[k]

\* the accumulated tree has `environments` at the top and, under another
\* key, a nested object with a key `environments`
C22_Witness ==
    /\ ConfigDone
    /\ "environments" \in KeysOf(Accumulated)
    /\ \E k \in KeysOf(config) : "environments" \in KeysOf(config.props[k])

FnCalls(trace) == {i \in 1..Len(trace) : trace[i].kind = "fn"}

\* invocations and timers alternate, starting with an invocation, and every
\* timer runs delayMs
Alternates(trace, delayMs) ==
    \A i \in 1..Len(trace) :
        IF i % 2 = 1 THEN trace[i].kind = "fn"
        ELSE trace[i] = SleepEvent(delayMs)

\* C24 (retryAction): with maxRetries >= 0, fn is invoked at most
\* maxRetries + 1 times; the call resolves with the result of the first
\* successful invocation and fn is not invoked after it; when all
\* maxRetries + 1 invocations fail it rejects with the error of the last one;
\* delayMs is awaited between consecutive invocations and not after the last
\* failed one.
C24_RetryAction ==
    retry.maxRetries >= 0 =>
        /\ Cardinality(FnCalls(retry.trace)) <= retry.maxRetries + 1
        /\ Alternates(retry.trace, retry.delayMs)
        /\ \A i \in FnCalls(retry.trace) :
              retry.trace[i].ok => /\ i = Len(retry.trace)
                                   /\ retry.pc = "resolved"
                                   /\ retry.settled = [resolved |-> retry.trace[i].payload]
        /\ retry.pc = "resolved" =>
              /\ retry.trace # <<>>
              /\ retry.trace[Len(retry.trace)].kind = "fn"
              /\ retry.trace[Len(retry.trace)].ok
        /\ retry.pc = "rejected" =>
              /\ Cardinality(FnCalls(retry.trace)) = retry.maxRetries + 1
              /\ retry.trace[Len(retry.trace)].kind = "fn"
              /\ ~retry.trace[Len(retry.trace)].ok
              /\ retry.settled =
                    [rejected |-> [error |-> retry.trace[Len(retry.trace)].payload]]

\* every attempt failed, with different errors, and the call has rejected
C24_Witness ==
    /\ retry.pc = "rejected"
    /\ retry.maxRetries = 2
    /\ retry.delayMs > 0
    /\ Len(retry.trace) = 5
    /\ retry.trace[1].payload # retry.trace[5].payload

\* failures first, then a success the call resolved with
C24_WitnessResolved ==
    /\ retry.pc = "resolved"
    /\ Len(retry.trace) = 3
    /\ retry.maxRetries = 2

(***************************************************************************)
(* The claim about pollUntil.                                              *)
(***************************************************************************)
PollSettled == poll.pc \in {"resolved", "rejected"}

\* an invocation returned true before timeoutMs had elapsed since the start
TrueInTime ==
    \E i \in 1..Len(poll.trace) :
        /\ poll.trace[i].outcome = "true"
        /\ poll.trace[i].ended - poll.startTime < poll.timeoutMs

\* the call resolves at the first true and fn is not invoked after it
ResolvesAtFirstTrue ==
    /\ \A i \in 1..Len(poll.trace) :
          poll.trace[i].outcome = "true" =>
              (i = Len(poll.trace) /\ poll.pc = "resolved")
    /\ poll.pc = "resolved" =>
          (poll.trace # <<>> /\ poll.trace[Len(poll.trace)].outcome = "true")

\* fn is not invoked once the elapsed time has reached timeoutMs
NoInvocationAfterTimeout ==
    \A i \in 1..Len(poll.trace) :
        poll.trace[i].began - poll.startTime < poll.timeoutMs

\* C25 (pollUntil): the call resolves as soon as an invocation of fn returns
\* true and fn is not invoked after that; when no invocation returns true
\* before timeoutMs has elapsed since the start it rejects with 'Polling
\* condition not met within <timeoutMs>ms'; fn is never invoked once the
\* elapsed time has reached timeoutMs.
C25_PollUntil ==
    /\ ResolvesAtFirstTrue
    /\ NoInvocationAfterTimeout
    /\ (PollSettled /\ ~TrueInTime) => poll.settled = PollingError(poll.timeoutMs)

\* what holds of the timeout: an invocation begun in time is awaited to its
\* end, however late, and the call rejects with the polling error exactly
\* when the loop condition fails
C25_TimeoutBetweenInvocations ==
    /\ ResolvesAtFirstTrue
    /\ NoInvocationAfterTimeout
    /\ poll.settled = PollingError(poll.timeoutMs) =>
          /\ poll.now - poll.startTime >= poll.timeoutMs
          /\ \A i \in 1..Len(poll.trace) : poll.trace[i].outcome = "false"

\* an invocation begun in time returned true after timeoutMs had elapsed,
\* and the call resolved
C25_LateTrueResolves ==
    /\ poll.pc = "resolved"
    /\ ~TrueInTime
    /\ Len(poll.trace) >= 2

(***************************************************************************)
(* The claim about the Logger buffer.                                      *)
(***************************************************************************)
\* the order debug < info < warn < error
Below(a, b) ==
    \/ a = "debug" /\ b \in {"info", "warn", "error"}
    \/ a = "info" /\ b \in {"warn", "error"}
    \/ a = "warn" /\ b = "error"

RECURSIVE AtOrAbove(_, _)
\* the entries of calls at or above the level, in call order
AtOrAbove(calls, level) ==
    IF calls = <<>> THEN <<>>
    ELSE IF Below(Head(calls).level, level)
         THEN AtOrAbove(Tail(calls), level)
         ELSE <<Head(calls)>> \o AtOrAbove(Tail(calls), level)

\* the level the Logger is configured with: LOG_LEVEL, or info by default
ConfiguredLevel ==
    IF logger.LOG_LEVEL \in {Undefined, Str("")} THEN "info" ELSE logger.LOG_LEVEL.value

\* C26 (Logger buffer): after any sequence of debug/info/warn/error and
\* clearLogs calls, getLogs returns, in call order, exactly the entries
\* logged since the last clearLogs whose level is at or above the configured
\* level (debug < info < warn < error; info by default); entries below the
\* level are never buffered.
C26_LoggerBuffer ==
    ConfiguredLevel \in LogLevels =>
        /\ getLogs(logger) = AtOrAbove(logger.calls, ConfiguredLevel)
        /\ \A i \in 1..Len(logger.logs) : ~Below(logger.logs[i].level, ConfiguredLevel)

\* with the default level: a debug entry dropped between two entries kept
C26_Witness ==
    /\ logger.LOG_LEVEL = Undefined
    /\ Len(logger.calls) = 3
    /\ logger.calls[1].level = "error"
    /\ logger.calls[2].level = "debug"
    /\ logger.calls[3].level = "info"
    /\ Len(getLogs(logger)) = 2

(***************************************************************************)
(* The claim about the temporary files.                                    *)
(***************************************************************************)
Tracked == {files.tempFiles[i] : i \in 1..Len(files.tempFiles)}

\* C27 (temp-file tracking): after any sequence of createTempFile and
\* cleanupTempFiles calls every file created since the last cleanup is in
\* the tracked list; when cleanupTempFiles has returned the list is empty
\* and every file that was tracked and whose deletion did not fail no longer
\* exists; cleanupTempFiles never throws and empties the list even when a
\* deletion fails.
C27_TempFiles ==
    /\ files.created \subseteq Tracked
    /\ ~files.threw
    /\ files.last = "cleanupTempFiles" =>
          /\ files.tempFiles = <<>>
          /\ \A filePath \in files.tracked \ files.failed : filePath \notin files.disk

\* a cleanup of three tracked files: one deleted, one whose deletion
\* failed, one that was gone already
C27_Witness ==
    /\ files.last = "cleanupTempFiles"
    /\ Cardinality(files.tracked) = 3
    /\ Cardinality(files.failed) = 1
    /\ files.disk = files.failed

(***************************************************************************)
(* The claim about where the overlay is looked up.                         *)
(***************************************************************************)
\* C28 (overlay source): only the environments map of the override layer
\* selects an overlay; a map brought by the defaults or by the autodetected
\* layer is only stripped, so with an override that has no `environments`
\* key no overlay is applied, whatever activeName is.
C28_OverlayFromOverridesOnly ==
    (ConfigDone /\ "environments" \notin KeysOf(overrides)) =>
        /\ consumerEnv = EmptyObj
        /\ config = ProjectOf(deepMerge(deepMerge(defaults, overrides), envConfig))

\* defaults and the autodetected layer both bring a map with an overlay for
\* the active name, the override brings none, and that overlay would have
\* changed the result
C28_Witness ==
    /\ ConfigDone
    /\ "environments" \notin KeysOf(overrides)
    /\ activeName = Str("staging")
    /\ At(defaults, "environments") = StagingMap
    /\ At(envConfig, "environments") = StagingMap
    /\ At(config, "timeout") # At(At(StagingMap, "staging"), "timeout")

(***************************************************************************)
(* The claim about merging the same patch twice.                           *)
(***************************************************************************)
\* C30 (idempotence in the patch): for all object trees base and patch,
\* merge(merge(base, patch), patch) deep-equals merge(base, patch).
C30_PatchIdempotent ==
    (MergeDone /\ IsPlainObject(target) /\ IsPlainObject(source)) =>
        deepMerge(result, source) = result

\* a merge that changed the base and merged, under one key, two nested
\* objects into a third
C30_Witness ==
    /\ MergeDone
    /\ IsPlainObject(target)
    /\ IsPlainObject(source)
    /\ result # target
    /\ result # source
    /\ \E k \in KeysOf(target) \cap KeysOf(source) :
          /\ IsPlainObject(target.props[k])
          /\ IsPlainObject(source.props[k])
          /\ result.props[k] # source.props[k]
          /\ result.props[k] # target.props[k]

\* the same in the pipeline: the override layer and the overlay each merged
\* a second time give the same config
C30_LayersTwice ==
    ConfigDone =>
        /\ ProjectOf(deepMerge(Accumulated, consumerEnv)) = config
        /\ ProjectOf(deepMerge(deepMerge(deepMerge(deepMerge(defaults, overrides),
                                                   overrides), envConfig),
                               consumerEnv)) = config

(***************************************************************************)
(* The claim about waitForNetworkIdle.                                     *)
(***************************************************************************)
Later(a, b) == IF a >= b THEN a ELSE b

\* C29 (waitForNetworkIdle): the promise resolves only when idleTimeMs has
\* elapsed with no request or response event since the later of the call
\* and the last such event; every event before resolution restarts the idle
\* timer; on resolution both listeners are removed and later events have
\* no effect; with events less than idleTimeMs apart it never resolves.
C29_NetworkIdle ==
    /\ netIdle.resolved =>
          /\ netIdle.resolvedAt - Later(netIdle.startTime, netIdle.quietBefore)
                >= netIdle.idleTimeMs
          /\ netIdle.listeners = {}
          /\ netIdle.timers = {}
    /\ ~netIdle.resolved =>
          /\ netIdle.listeners = PageEvents
          /\ netIdle.timers =
                {Later(netIdle.startTime, netIdle.lastEmitted) + netIdle.idleTimeMs}

\* events of both kinds came closer than idleTimeMs apart, then none for
\* idleTimeMs: the promise resolved late, and an event after it changed
\* nothing
C29_Witness ==
    /\ netIdle.resolved
    /\ netIdle.idleTimeMs = 2
    /\ netIdle.quietBefore = 2
    /\ netIdle.resolvedAt = 5
    /\ netIdle.emittedAfter
    /\ netIdle.lastEmitted = 6

====
